---------------------------- MODULE Spec2Model ----------------------------
(***************************************************************************)
(* A model of port_scanner/scanner.py: the argument handling of main, the  *)
(* port-specification parser, the probe (scan_port), the per-host worker   *)
(* pool (scan_host), the host loop (scan_hosts) and the retained result    *)
(* list.  Text (port specifications, received bytes) is modelled as        *)
(* sequences of one-character strings so that split/strip/int are          *)
(* computed, not assumed.                                                  *)
(***************************************************************************)
EXTENDS Integers, Sequences, FiniteSets, TLC

VARIABLES
    pc,              \* position of the main thread
    targets,         \* main: targets (list of host strings)
    port_input,      \* args.ports, a sequence of characters
    threads,         \* args.threads = PortScanner.threads
    invalid_targets, \* main: invalid_targets
    ports,           \* main: ports (result of parse_ports)
    hostIdx,         \* scan_hosts: 1-based position of the host being scanned
    submitted,       \* scan_host: number of ports already submitted to the executor
    queue,           \* executor work queue: tasks <<host position, port index>>
    num_threads,     \* executor: worker threads spawned so far
    fut,             \* future_to_port: one future (state, outcome) per port index
    frame,           \* scan_port frames of the probes being executed by workers
    open_socks,      \* sockets currently open, named by the task that created them
    snapshot,        \* as_completed: futures already finished when it was called
    waiter,          \* as_completed: futures finished later, in completion order
    results,         \* PortScanner.results
    exc,             \* exception propagating in the main thread ("" when none)
    issued,          \* history: scan_port calls started per <<host position, port index>>
    produced,        \* history: ScanResults returned per <<host position, port index>>
    raised,          \* history: tasks whose scan_port call raised
    opened,          \* history: tasks whose connection attempt succeeded
    parsed,          \* outcome of the parse_ports call under study
    banner_io,       \* history: what send/recv did in each probe of this host
    completion,      \* history (OrderSpec): stamps of this host's probes, as they ended
    files            \* the output files written by to_json and to_csv

vars == <<pc, targets, port_input, threads, invalid_targets, ports, hostIdx,
          submitted, queue, num_threads, fut, frame, open_socks, snapshot,
          waiter, results, exc, issued, produced, raised, opened, parsed,
          banner_io, completion, files>>

-----------------------------------------------------------------------------
(* Bounds of the model. *)

\* longest retained sequence exported by ExportSpec
MaxResults == 2

\* longest port specification explored by ParseSpec
MaxLen == 5
\* most targets on the command line
MaxHosts == 2
\* largest --threads value
MaxThreads == 2

-----------------------------------------------------------------------------
(* Text helpers: Python's str methods on sequences of characters. *)

Digits == <<"0", "1", "2", "3", "4", "5", "6", "7", "8", "9">>

IsDigit(c) == \E i \in 1..Len(Digits) : Digits[i] = c

DigitVal(c) == (CHOOSE i \in 1..Len(Digits) : Digits[i] = c) - 1

\* the characters str.strip() removes
Whitespace == {" ", "\t", "\n", "\r", "\f"}

RECURSIVE LStrip(_)
LStrip(s) ==
    IF s # <<>> /\ Head(s) \in Whitespace THEN LStrip(Tail(s)) ELSE s

RECURSIVE RStrip(_)
RStrip(s) ==
    IF s # <<>> /\ s[Len(s)] \in Whitespace
    THEN RStrip(SubSeq(s, 1, Len(s) - 1))
    ELSE s

\* str.strip()
Strip(s) == RStrip(LStrip(s))

\* c in s
Contains(s, c) == \E i \in 1..Len(s) : s[i] = c

\* s.split(sep) for a one-character separator: always at least one piece
RECURSIVE Split(_, _)
Split(s, sep) ==
    IF ~Contains(s, sep)
    THEN <<s>>
    ELSE LET i == CHOOSE k \in 1..Len(s) :
                     s[k] = sep /\ \A j \in 1..(k - 1) : s[j] # sep
         IN  <<SubSeq(s, 1, i - 1)>> \o Split(SubSeq(s, i + 1, Len(s)), sep)

\* the literals int() accepts among the characters of the model: digits with
\* optional surrounding whitespace (a sign never reaches int: '-' is split away)
IntOk(s) ==
    LET t == Strip(s)
    IN  t # <<>> /\ \A i \in 1..Len(t) : IsDigit(t[i])

RECURSIVE DigitsVal(_)
DigitsVal(t) ==
    IF t = <<>> THEN 0
    ELSE 10 * DigitsVal(SubSeq(t, 1, Len(t) - 1)) + DigitVal(t[Len(t)])

\* int(s) where IntOk(s)
IntVal(s) == DigitsVal(Strip(s))

\* a power of two above every element of a set of naturals
RECURSIVE Cover(_, _)
Cover(S, n) == IF \A x \in S : x < n THEN n ELSE Cover(S, 2 * n)

\* the elements of S, all within lo..hi, in ascending order
RECURSIVE SortBetween(_, _, _)
SortBetween(S, lo, hi) ==
    IF S = {} THEN <<>>
    ELSE IF lo = hi THEN <<lo>>
    ELSE LET mid == (lo + hi) \div 2
         IN  SortBetween({x \in S : x <= mid}, lo, mid)
             \o SortBetween({x \in S : x > mid}, mid + 1, hi)

\* sorted(set): ascending sequence of a finite set of naturals
Sorted(S) == SortBetween(S, 0, Cover(S, 1) - 1)

-----------------------------------------------------------------------------
(* parse_ports *)

\* range(start, end): the end itself is left out
RangeOfExclusive(start, end) == start .. (end - 1)

\* range(start, end + 1)
RangeOf(start, end) == start .. end

\* the outcome of one token: [ok |-> FALSE] is a ValueError, otherwise the
\* ports the token adds to the set

ParsePart(rawpart) ==
    LET part == Strip(rawpart)
    IN  IF Contains(part, "-")
        THEN LET pieces == Split(part, "-")
             IN  IF Len(pieces) # 2 \/ ~IntOk(pieces[1]) \/ ~IntOk(pieces[2])
                 THEN [ok |-> FALSE, add |-> {}]
                 ELSE [ok |-> TRUE,
                       add |-> RangeOf(IntVal(pieces[1]), IntVal(pieces[2]))]
        ELSE IF part = <<>>
             THEN [ok |-> TRUE, add |-> {}]
             ELSE IF IntOk(part)
                  THEN [ok |-> TRUE, add |-> {IntVal(part)}]
                  ELSE [ok |-> FALSE, add |-> {}]

\* parse_ports(port_input): [ok |-> FALSE] when a ValueError is raised,
\* otherwise the sorted list of ports
parse_ports(input) ==
    LET parts == Split(input, ",")
        outs  == [i \in 1..Len(parts) |-> ParsePart(parts[i])]
    IN  IF \E i \in 1..Len(parts) : ~outs[i].ok
        THEN [ok |-> FALSE, ports |-> <<>>]
        ELSE [ok |-> TRUE,
              ports |-> Sorted(UNION {outs[i].add : i \in 1..Len(parts)})]

-----------------------------------------------------------------------------
(* The inputs of a run. *)

\* an IP literal and a host name; ipaddress.ip_address accepts only the first
Hosts == {"10.0.0.1", "scanme.example"}

IsIPLiteral(h) == h = "10.0.0.1"

\* the target lists given to main: the name in second place, the IP literal
\* elsewhere (so a longer list names the same host twice)
TargetLists ==
    {[i \in 1..k |-> IF i = 2 THEN "scanme.example" ELSE "10.0.0.1"] : k \in 0..MaxHosts}

\* the port specifications given to main, with the ports they yield
PortInputs ==
    { <<>>,
      <<"x">>,
      <<"2", "-", "1">>,
      <<"2", "2">>,
      <<"8", "0", ",", "8", "1">>,
      <<"8", "1", "-", "8", "3">>,
      <<"8", "0", ",", "7", "0", "0", "0", "0">> }

\* what the peer may send back to the probe payload (recv(1024))
RecvData ==
    { <<>>,
      <<"O", "K", "\r", "\n", "x">> }

SeqsUpTo(S, n) == UNION {[1..k -> S] : k \in 0..n}

\* the characters port specifications are drawn from in ParseSpec
Alphabet == {"1", "2", ",", "-", "x", " "}

-----------------------------------------------------------------------------
(* ScanResult and the Service Table. *)

COMMON_PORTS ==
    [p \in {20, 21, 22, 23, 25, 53, 80, 110, 143, 443, 445, 3306, 3389, 5432, 8080} |->
        CASE p = 20 -> "FTP"
          [] p = 21 -> "FTP"
          [] p = 22 -> "SSH"
          [] p = 23 -> "Telnet"
          [] p = 25 -> "SMTP"
          [] p = 53 -> "DNS"
          [] p = 80 -> "HTTP"
          [] p = 110 -> "POP3"
          [] p = 143 -> "IMAP"
          [] p = 443 -> "HTTPS"
          [] p = 445 -> "SMB"
          [] p = 3306 -> "MySQL"
          [] p = 3389 -> "RDP"
          [] p = 5432 -> "PostgreSQL"
          [] p = 8080 -> "HTTP-Proxy"]

\* ScanResult(host=host, port=port, is_open=False) with scan_time set
ScanResult(host, port, time) ==
    [host |-> host, port |-> port, is_open |-> FALSE,
     service |-> "", banner |-> <<>>, scan_time |-> time]

\* the value of a future that holds no result
NoResult == [host |-> "", port |-> -1, is_open |-> FALSE,
             service |-> "", banner |-> <<>>, scan_time |-> -1]

-----------------------------------------------------------------------------
(* scan_port: the pieces of one probe. *)

\* the port numbers connect_ex accepts; any other raises OverflowError
PortInRange(port) == 0 <= port /\ port <= 65535

\* what sock.connect_ex((host, port)) can do: return 0 ("ok"), return an
\* errno ("refused": refusal, timeout, unreachable), or raise.  The address is
\* resolved before the port is range-checked.
ConnectOutcomes(host, port) ==
    (IF IsIPLiteral(host) THEN {} ELSE {"gaierror"})
    \cup (IF PortInRange(port) THEN {"ok", "refused"} ELSE {"OverflowError"})

\* the exceptions the outer except clause of scan_port absorbs
Absorbed(e) == e \in {"timeout", "error", "gaierror"}

\* the lookup without the is_open test
ServiceGuardAnyState(is_open, port) == port \in DOMAIN COMMON_PORTS

\* the condition under which service is set and the banner is attempted
ServiceGuard(is_open, port) == is_open /\ port \in DOMAIN COMMON_PORTS

\* a byte that is not valid UTF-8; decode(errors='ignore') drops it
InvalidByte == "0xff"

Decode(data) == SelectSeq(data, LAMBDA c : c # InvalidByte)

\* result.banner after recv returned data: unchanged (empty) when the
\* stripped text is empty, otherwise its first piece of split('\n')
BannerOf(data) ==
    LET banner == Strip(Decode(data))
    IN  IF banner = <<>> THEN <<>> ELSE Split(banner, "\n")[1]

\* the lookup with the progress line's placeholder for an unlisted port
AfterConnectPlaceholder(result, outcome) ==
    LET is_open == (outcome = "ok")
    IN  [result EXCEPT
            !.is_open = is_open,
            !.service = IF ServiceGuard(is_open, result.port)
                        THEN COMMON_PORTS[result.port]
                        ELSE IF is_open THEN "unknown" ELSE @]

\* the result after connect_ex returned code 0 ("ok") or an errno
AfterConnect(result, outcome) ==
    LET is_open == (outcome = "ok")
    IN  [result EXCEPT
            !.is_open = is_open,
            !.service = IF ServiceGuard(is_open, result.port)
                        THEN COMMON_PORTS[result.port]
                        ELSE @]

-----------------------------------------------------------------------------
(* Initial states. *)

NotParsed == [ok |-> FALSE, ports |-> <<"not parsed">>]

NoFuture == [state |-> "none", result |-> NoResult, exception |-> ""]

\* the completion order is not being recorded
NotRecorded == <<-1>>

\* the order with one more probe ended, when it is being recorded
Recorded(order, stamp) ==
    IF order = NotRecorded THEN order ELSE Append(order, stamp)

\* neither output file exists
NoFiles ==
    [json |-> [exists |-> FALSE, array |-> <<>>],
     csv  |-> [exists |-> FALSE, header |-> <<>>, rows |-> <<>>]]

Idle ==
    /\ invalid_targets = <<>>
    /\ ports = <<>>
    /\ hostIdx = 0
    /\ submitted = 0
    /\ queue = <<>>
    /\ num_threads = 0
    /\ fut = <<>>
    /\ frame = <<>>
    /\ open_socks = {}
    /\ snapshot = {}
    /\ waiter = <<>>
    /\ results = <<>>
    /\ exc = ""
    /\ issued = <<>>
    /\ produced = <<>>
    /\ raised = {}
    /\ opened = {}
    /\ parsed = NotParsed
    /\ banner_io = <<>>
    /\ files = NoFiles

\* main has parsed its arguments (parse_arguments) and nothing else has run
Init ==
    /\ pc = "main"
    /\ targets \in TargetLists
    /\ port_input \in PortInputs
    /\ threads \in 0..MaxThreads
    /\ completion = NotRecorded
    /\ Idle

-----------------------------------------------------------------------------
(* main, up to the start of the scan. *)

\* [t for t in targets if not is_valid_host(t)], given which lookups succeed
RECURSIVE InvalidTargets(_, _)
InvalidTargets(ts, valid) ==
    IF ts = <<>> THEN <<>>
    ELSE (IF Head(valid) THEN <<>> ELSE <<Head(ts)>>)
         \o InvalidTargets(Tail(ts), Tail(valid))

\* is_valid_host: an IP literal is valid; a name is valid when gethostbyname
\* resolves it, which the environment decides
ValidityChoices(ts) ==
    {v \in [1..Len(ts) -> BOOLEAN] : \A i \in 1..Len(ts) : IsIPLiteral(ts[i]) => v[i]}

\* the error is printed but main does not return
TargetsNeverRejected(inv) == FALSE

\* if invalid_targets: print error, return
TargetsRejected(inv) == inv # <<>>

\* if not ports: print error, return
PortsRejected(ps) == ps = <<>>

Tasks(nhosts, nports) == (1..nhosts) \X (1..nports)

\* PortScanner.parse_ports(args.ports) for each port specification of a run
ParsedInputs == [s \in PortInputs |-> parse_ports(s)]

MainValidate ==
    /\ pc = "main"
    /\ \E valid \in ValidityChoices(targets) :
         LET inv == InvalidTargets(targets, valid)
             pr  == ParsedInputs[port_input]
             go  == ~TargetsRejected(inv) /\ pr.ok /\ ~PortsRejected(pr.ports)
         IN  /\ invalid_targets' = inv
             /\ ports' = IF ~TargetsRejected(inv) /\ pr.ok THEN pr.ports ELSE ports
             /\ pc' = IF go THEN "scan_hosts" ELSE "invalid"
             /\ hostIdx' = IF go THEN 1 ELSE hostIdx
             /\ issued' = IF go
                          THEN [t \in Tasks(Len(targets), Len(pr.ports)) |-> 0]
                          ELSE issued
             /\ produced' = issued'
    /\ UNCHANGED <<targets, port_input, threads, submitted, queue, num_threads,
                   fut, frame, open_socks, snapshot, waiter, results, exc,
                   raised, opened, parsed,
                   banner_io, completion, files>>

-----------------------------------------------------------------------------
(* scan_hosts and scan_host: the main thread. *)

\* for host in hosts: exhausted, scan_hosts returns and main prints completion
ScanHostsDone ==
    /\ pc = "scan_hosts"
    /\ hostIdx > Len(targets)
    /\ pc' = "done"
    /\ UNCHANGED <<targets, port_input, threads, invalid_targets, ports, hostIdx,
                   submitted, queue, num_threads, fut, frame, open_socks,
                   snapshot, waiter, results, exc, issued, produced, raised,
                   opened, parsed,
                   banner_io, completion, files>>

\* scan_host(host, ports): ThreadPoolExecutor(max_workers=self.threads), which
\* raises ValueError when max_workers <= 0
ScanHostEnter ==
    /\ pc = "scan_hosts"
    /\ hostIdx <= Len(targets)
    /\ IF threads <= 0
       THEN /\ exc' = "ValueError"
            /\ pc' = "error"
            /\ UNCHANGED <<submitted, num_threads, fut, snapshot, waiter,
                           banner_io, completion>>
       ELSE /\ pc' = "submit"
            /\ submitted' = 0
            /\ num_threads' = 0
            /\ fut' = [p \in 1..Len(ports) |-> NoFuture]
            /\ snapshot' = {}
            /\ waiter' = <<>>
            /\ exc' = exc
            /\ banner_io' = <<>>
            /\ completion' = IF completion = NotRecorded THEN completion ELSE <<>>
    /\ UNCHANGED <<targets, port_input, threads, invalid_targets, ports, hostIdx,
                   queue, frame, open_socks, results, issued, produced, raised,
                   opened, parsed, files>>

\* unbounded fan-out: one thread per submitted task, whatever max_workers is
SpawnsThreadUnbounded == TRUE

\* executor._adjust_thread_count: a worker thread is started while fewer than
\* max_workers exist
SpawnsThread == num_threads < threads

\* the comprehension stops one port early
SubmitDoneEarly == submitted >= Len(ports) - 1

\* the dict comprehension has gone through every port
SubmitDone == submitted = Len(ports)

\* the keys of future_to_port: the futures of the ports submitted so far
Futures == 1..submitted

\* executor.submit(self.scan_port, host, port) for the next port
Submit ==
    /\ pc = "submit"
    /\ ~SubmitDone
    /\ LET p == submitted + 1
       IN  /\ fut' = [fut EXCEPT ![p].state = "pending"]
           /\ queue' = Append(queue, <<hostIdx, p>>)
           /\ submitted' = p
    /\ num_threads' = IF SpawnsThread THEN num_threads + 1 ELSE num_threads
    /\ UNCHANGED <<pc, targets, port_input, threads, invalid_targets, ports,
                   hostIdx, frame, open_socks, snapshot, waiter, results, exc,
                   issued, produced, raised, opened, parsed,
                   banner_io, completion, files>>

\* concurrent.futures.as_completed(future_to_port) is called once every port
\* is submitted: the futures finished by then are yielded first, in no
\* particular order
AsCompleted ==
    /\ pc = "submit"
    /\ SubmitDone
    /\ snapshot' = {p \in Futures : fut[p].state = "finished"}
    /\ waiter' = <<>>
    /\ pc' = "collect"
    /\ UNCHANGED <<targets, port_input, threads, invalid_targets, ports, hostIdx,
                   submitted, queue, num_threads, fut, frame, open_socks,
                   results, exc, issued, produced, raised, opened, parsed,
                   banner_io, completion, files>>

\* every result is appended, open or not
RetainedAlways(result) == TRUE

\* only results with a known service are appended
RetainedKnownOnly(result) == result.is_open /\ result.service # ""

\* if result.is_open: self.results.append(result)
Retained(result) == result.is_open

\* the new result is put in front of the list
Prepended(rs, result) == <<result>> \o rs

\* self.results.append(result)
Appended(rs, result) == Append(rs, result)

\* the future as_completed yields next
NextYield(p) ==
    \/ p \in snapshot
    \/ snapshot = {} /\ waiter # <<>> /\ p = Head(waiter)

\* one iteration of the for loop over as_completed: future.result() returns
\* the ScanResult or re-raises what scan_port raised
Yield(p) ==
    /\ pc = "collect"
    /\ NextYield(p)
    /\ snapshot' = snapshot \ {p}
    /\ waiter' = IF p \in snapshot THEN waiter ELSE Tail(waiter)
    /\ IF fut[p].exception # ""
       THEN /\ exc' = fut[p].exception
            /\ pc' = "shutdown"
            /\ results' = results
       ELSE /\ results' = IF Retained(fut[p].result)
                          THEN Appended(results, fut[p].result)
                          ELSE results
            /\ UNCHANGED <<pc, exc>>
    /\ UNCHANGED <<targets, port_input, threads, invalid_targets, ports, hostIdx,
                   submitted, queue, num_threads, fut, frame, open_socks,
                   issued, produced, raised, opened, parsed,
                   banner_io, completion, files>>

\* as_completed is exhausted: every future was yielded
CollectDone ==
    /\ pc = "collect"
    /\ snapshot = {}
    /\ waiter = <<>>
    /\ \A p \in Futures : fut[p].state = "finished"
    /\ pc' = "shutdown"
    /\ UNCHANGED <<targets, port_input, threads, invalid_targets, ports, hostIdx,
                   submitted, queue, num_threads, fut, frame, open_socks,
                   snapshot, waiter, results, exc, issued, produced, raised,
                   opened, parsed,
                   banner_io, completion, files>>

\* shutdown(wait=False): the with block is left at once
ShutdownNoWait == TRUE

\* the executor's __exit__ is shutdown(wait=True): it returns once the queue
\* is drained and every worker has finished
ShutdownWait == queue = <<>> /\ DOMAIN frame = {}

\* main without its except KeyboardInterrupt clause: the interrupt ends the
\* process with a traceback
HandlerWithoutInterruptClause(e) ==
    IF e = "KeyboardInterrupt" THEN "crashed" ELSE "error"

\* main's except clauses: where the main thread ends when exception e leaves
\* scan_hosts (KeyboardInterrupt is no Exception)
Handler(e) == IF e = "KeyboardInterrupt" THEN "interrupted" ELSE "error"

\* leaving the with block: scan_host returns to the loop of scan_hosts, or
\* the exception goes on to main's except clause
ExecutorExit ==
    /\ pc = "shutdown"
    /\ ShutdownWait
    /\ IF exc # ""
       THEN pc' = Handler(exc) /\ hostIdx' = hostIdx
       ELSE pc' = "scan_hosts" /\ hostIdx' = hostIdx + 1
    /\ UNCHANGED <<targets, port_input, threads, invalid_targets, ports,
                   submitted, queue, num_threads, fut, frame, open_socks,
                   snapshot, waiter, results, exc, issued, produced, raised,
                   opened, parsed,
                   banner_io, completion, files>>

\* Ctrl+C: KeyboardInterrupt is raised in the main thread while it is between
\* two hosts, submitting, or iterating as_completed.  Inside the with block
\* it first runs the executor's __exit__, which waits for the pool; between
\* two hosts it goes straight to main's except clause.  Unwinding closes the
\* as_completed generator, which drops its waiter.  One interrupt per run:
\* the wait of __exit__ is not interrupted a second time
Interrupt ==
    /\ pc \in {"scan_hosts", "submit", "collect"}
    /\ exc' = "KeyboardInterrupt"
    /\ pc' = IF pc \in {"submit", "collect"}
             THEN "shutdown"
             ELSE Handler("KeyboardInterrupt")
    /\ snapshot' = {}
    /\ waiter' = <<>>
    /\ UNCHANGED <<targets, port_input, threads, invalid_targets, ports, hostIdx,
                   submitted, queue, num_threads, fut, frame, open_socks,
                   results, issued, produced, raised, opened, parsed,
                   banner_io, completion, files>>

-----------------------------------------------------------------------------
(* The worker threads: each runs scan_port for one task at a time. *)

\* the future of task t is the one scan_host currently holds
Current(t) == t[1] = hostIdx /\ pc \in {"submit", "collect", "shutdown"}

\* a worker thread is free to take the next work item
WorkerFree == Cardinality(DOMAIN frame) < num_threads

\* datetime.now(): a logical clock, the number of probes started so far
Now == Cardinality({t \in DOMAIN issued : issued[t] > 0})

WithFrame(t, f) == [u \in DOMAIN frame \cup {t} |-> IF u = t THEN f ELSE frame[u]]

WithoutFrame(t) == [u \in DOMAIN frame \ {t} |-> frame[u]]

\* the socket is left open when scan_port returns
SocketLeftOpen(socks, t) == socks

\* the end of the with block: sock.close()
CloseSocket(socks, t) == socks \ {t}

\* scan_port is left: the with block has closed the socket, and the worker
\* stores the returned result, or the exception err that escaped, in the
\* future, which wakes as_completed when it is waiting
Finish(t, result, err) ==
    /\ open_socks' = CloseSocket(open_socks, t)
    /\ completion' = IF Current(t)
                     THEN Recorded(completion, result.scan_time)
                     ELSE completion
    /\ fut' = IF Current(t)
              THEN [fut EXCEPT ![t[2]] =
                       [state |-> "finished",
                        result |-> IF err = "" THEN result ELSE NoResult,
                        exception |-> err]]
              ELSE fut
    /\ waiter' = IF Current(t) /\ pc = "collect" THEN Append(waiter, t[2]) ELSE waiter
    /\ produced' = IF err = "" THEN [produced EXCEPT ![t] = @ + 1] ELSE produced
    /\ raised' = IF err = "" THEN raised ELSE raised \cup {t}

\* a worker takes the head of the queue and enters scan_port: the result
\* object is created and stamped and the socket is created; when creating
\* it fails (socket.error, absorbed by the outer except) the probe returns
ProbeStart(t) ==
    /\ queue # <<>>
    /\ t = Head(queue)
    /\ WorkerFree
    /\ queue' = Tail(queue)
    /\ issued' = [issued EXCEPT ![t] = @ + 1]
    /\ LET result == ScanResult(targets[t[1]], ports[t[2]], Now)
       IN  \/ /\ frame' = WithFrame(t, [at |-> "connect", result |-> result])
              /\ open_socks' = open_socks \cup {t}
              /\ fut' = IF Current(t) THEN [fut EXCEPT ![t[2]].state = "running"]
                        ELSE fut
              /\ UNCHANGED <<waiter, produced, raised, completion>>
           \/ /\ frame' = frame
              /\ Finish(t, result, "")
    /\ UNCHANGED <<pc, targets, port_input, threads, invalid_targets, ports,
                   hostIdx, submitted, num_threads, snapshot, results, exc,
                   opened, parsed, banner_io, files>>

\* sock.connect_ex and the service lookup; unless the banner is attempted
\* next, the probe is over: it returns its result, or what connect_ex raised
\* escapes when the outer except does not absorb it
ProbeConnect(t) ==
    /\ t \in DOMAIN frame
    /\ frame[t].at = "connect"
    /\ \E o \in ConnectOutcomes(frame[t].result.host, frame[t].result.port) :
         /\ IF o \in {"ok", "refused"}
            THEN LET r == AfterConnect(frame[t].result, o)
                 IN  IF ServiceGuard(r.is_open, r.port)
                     THEN /\ frame' = [frame EXCEPT ![t].result = r, ![t].at = "banner"]
                          /\ UNCHANGED <<open_socks, fut, waiter, produced,
                                         raised, completion>>
                     ELSE /\ frame' = WithoutFrame(t)
                          /\ Finish(t, r, "")
            ELSE /\ frame' = WithoutFrame(t)
                 /\ Finish(t, frame[t].result, IF Absorbed(o) THEN "" ELSE o)
         /\ opened' = IF o = "ok" THEN opened \cup {t} ELSE opened
    /\ UNCHANGED <<pc, targets, port_input, threads, invalid_targets, ports,
                   hostIdx, submitted, queue, num_threads, snapshot, results,
                   exc, issued, parsed, banner_io, files>>

\* a failed banner capture marks the port as closed
BannerFailedCloses(result) == [result EXCEPT !.is_open = FALSE]

\* except (socket.timeout, socket.error): pass -- the result stays as it was
BannerFailed(result) == result

\* the record that the probe of task t sent the payload, what came of it
\* and what the result was before
WithIO(t, io) ==
    [u \in DOMAIN banner_io \cup {t} |-> IF u = t THEN io ELSE banner_io[u]]

\* sock.send and sock.recv: either fails (timeout, reset: absorbed by the
\* inner except) or data comes back; then the probe returns
ProbeBanner(t) ==
    /\ t \in DOMAIN frame
    /\ frame[t].at = "banner"
    /\ frame' = WithoutFrame(t)
    /\ \/ /\ Finish(t, BannerFailed(frame[t].result), "")
          /\ banner_io' = WithIO(t, [failed |-> TRUE, data |-> <<>>,
                                     before |-> frame[t].result])
       \/ \E data \in RecvData :
            /\ Finish(t, [frame[t].result EXCEPT !.banner = BannerOf(data)], "")
            /\ banner_io' = WithIO(t, [failed |-> FALSE, data |-> data,
                                       before |-> frame[t].result])
    /\ UNCHANGED <<pc, targets, port_input, threads, invalid_targets, ports,
                   hostIdx, submitted, queue, num_threads, snapshot, results,
                   exc, issued, opened, parsed, files>>

-----------------------------------------------------------------------------
(* The run of main. *)

AllTasks == Tasks(Len(targets), Len(ports))

Next ==
    \/ MainValidate
    \/ ScanHostsDone
    \/ ScanHostEnter
    \/ Submit
    \/ AsCompleted
    \/ \E p \in 1..Len(ports) : Yield(p)
    \/ CollectDone
    \/ ExecutorExit
    \/ Interrupt
    \/ \E t \in AllTasks : ProbeStart(t)
    \/ \E t \in AllTasks : ProbeConnect(t)
    \/ \E t \in AllTasks : ProbeBanner(t)

Spec == Init /\ [][Next]_vars

\* threads are scheduled by the operating system and every socket call is
\* bounded by the timeout: each enabled step is eventually taken
FairSpec == Spec /\ WF_vars(Next)

\* the same program scanning one host, with the order in which its probes
\* end recorded
OrderInit ==
    /\ pc = "main"
    /\ targets = <<"10.0.0.1">>
    /\ port_input \in PortInputs
    /\ threads \in 0..MaxThreads
    /\ completion = <<>>
    /\ Idle

OrderSpec == OrderInit /\ [][Next]_vars

-----------------------------------------------------------------------------
(* parse_ports on its own, over every short port specification. *)

ParseInit ==
    /\ pc = "parse"
    /\ targets = <<>>
    /\ port_input \in SeqsUpTo(Alphabet, MaxLen)
    /\ threads = 0
    /\ completion = NotRecorded
    /\ Idle

ParseCall ==
    /\ pc = "parse"
    /\ parsed' = parse_ports(port_input)
    /\ pc' = "parsed"
    /\ UNCHANGED <<targets, port_input, threads, invalid_targets, ports, hostIdx,
                   submitted, queue, num_threads, fut, frame, open_socks,
                   snapshot, waiter, results, exc, issued, produced, raised,
                   opened, banner_io, completion, files>>

ParseNext == ParseCall

ParseSpec == ParseInit /\ [][ParseNext]_vars

-----------------------------------------------------------------------------
(* to_json and to_csv on their own, over short retained sequences. *)

\* str(n) for a natural number, as csv.DictWriter writes it
RECURSIVE ToText(_)
ToText(n) ==
    LET last == Digits[(n % 10) + 1]
    IN  IF n < 10 THEN <<last>> ELSE Append(ToText(n \div 10), last)

\* an open result as scan_port returns it for a listed or an unlisted port
OpenResult(host, port, data, time) ==
    [AfterConnect(ScanResult(host, port, time), "ok") EXCEPT
        !.banner = IF ServiceGuard(TRUE, port) THEN BannerOf(data) ELSE <<>>]

\* the retained sequences of up to n results, stamped in the order retained
RECURSIVE RetainedSeqs(_)
RetainedSeqs(n) ==
    IF n = 0 THEN {<<>>}
    ELSE LET shorter == RetainedSeqs(n - 1)
         IN  shorter \cup
             {Append(rs, OpenResult(h, p, d, n - 1)) :
                 rs \in {q \in shorter : Len(q) = n - 1},
                 h \in Hosts, p \in {22, 81}, d \in RecvData}

\* main after scan_hosts has returned, with --output given
ExportInit ==
    /\ pc = "to_json"
    /\ targets = <<>>
    /\ port_input = <<>>
    /\ threads = 1
    /\ results \in RetainedSeqs(MaxResults)
    /\ invalid_targets = <<>>
    /\ ports = <<>>
    /\ hostIdx = 0
    /\ submitted = 0
    /\ queue = <<>>
    /\ num_threads = 0
    /\ fut = <<>>
    /\ frame = <<>>
    /\ open_socks = {}
    /\ snapshot = {}
    /\ waiter = <<>>
    /\ exc = ""
    /\ issued = <<>>
    /\ produced = <<>>
    /\ raised = {}
    /\ opened = {}
    /\ parsed = NotParsed
    /\ banner_io = <<>>
    /\ completion = NotRecorded
    /\ files = NoFiles

\* the object json.dump writes for one result
JsonObject(r) ==
    [host |-> r.host, port |-> r.port, service |-> r.service,
     banner |-> r.banner, scan_time |-> r.scan_time]

\* to_json: the file is opened for writing, then the list is dumped
ToJson ==
    /\ pc = "to_json"
    /\ files' = [files EXCEPT !.json =
                    [exists |-> TRUE,
                     array  |-> [i \in 1..Len(results) |-> JsonObject(results[i])]]]
    /\ pc' = "to_csv"
    /\ UNCHANGED <<targets, port_input, threads, invalid_targets, ports, hostIdx,
                   submitted, queue, num_threads, fut, frame, open_socks,
                   snapshot, waiter, results, exc, issued, produced, raised,
                   opened, parsed, banner_io, completion>>

\* the header is written even when there is nothing to export
CsvNeverSkipped(rs) == FALSE

\* if not self.results: return
CsvSkipped(rs) == rs = <<>>

fieldnames == <<"host", "port", "service", "banner", "scan_time">>

\* the cells writer.writerow writes for one result, in the order of fieldnames
CsvRow(r) == <<r.host, ToText(r.port), r.service, r.banner, ToText(r.scan_time)>>

\* to_csv: nothing when there are no results, otherwise header and rows
ToCsv ==
    /\ pc = "to_csv"
    /\ files' = IF CsvSkipped(results)
                THEN files
                ELSE [files EXCEPT !.csv =
                        [exists |-> TRUE,
                         header |-> fieldnames,
                         rows   |-> [i \in 1..Len(results) |-> CsvRow(results[i])]]]
    /\ pc' = "exported"
    /\ UNCHANGED <<targets, port_input, threads, invalid_targets, ports, hostIdx,
                   submitted, queue, num_threads, fut, frame, open_socks,
                   snapshot, waiter, results, exc, issued, produced, raised,
                   opened, parsed, banner_io, completion>>

ExportNext == ToJson \/ ToCsv

ExportSpec == ExportInit /\ [][ExportNext]_vars

-----------------------------------------------------------------------------
(* Properties. *)

InScanHost == pc \in {"submit", "collect", "shutdown"}

QueuedTasks == {queue[i] : i \in 1..Len(queue)}

\* the probes that are queued or being executed
InFlight == QueuedTasks \cup DOMAIN frame

\* a probe that was started and has returned or raised
Completed(t) ==
    /\ issued[t] = 1
    /\ t \notin InFlight
    /\ (produced[t] = 1) # (t \in raised)

\* the ScanResults scan_port has returned to the futures scan_host holds
ReturnedResults ==
    {fut[p].result : p \in {q \in DOMAIN fut : fut[q].state = "finished"
                                               /\ fut[q].exception = ""}}

\* C1: at every moment the number of probes holding an open socket is at
\* most the configured concurrency (PortScanner.threads), however many ports
\* were requested.
ConcurrencyBound == Cardinality(open_socks) <= threads

\* C1 witness: every worker of a pool of at least two holds a socket while
\* further ports wait in the queue.
ConcurrencyBoundWitness ==
    /\ threads >= 2
    /\ Cardinality(open_socks) = threads
    /\ queue # <<>>

\* C2: hosts are scanned in order without overlap: every probe queued or
\* running belongs to the host scan_host is currently scanning, and once a
\* probe for a host position has started, every probe of every earlier
\* position has been started and has completed.
NoCrossHostOverlap ==
    /\ \A t \in InFlight \cup open_socks : t[1] = hostIdx /\ InScanHost
    /\ \A t \in DOMAIN issued :
         issued[t] > 0 =>
            \A u \in DOMAIN issued : u[1] < t[1] => Completed(u)

\* C2 witness: a probe of the second host is running after the first host
\* was scanned.
NoCrossHostOverlapWitness ==
    /\ hostIdx = 2
    /\ \E t \in DOMAIN frame : t[1] = 2
    /\ Len(ports) >= 2

\* C3: when scan_hosts has returned normally, exactly one probe was issued
\* and exactly one ScanResult produced for every (host position, port), and
\* at most that many results are retained.
ExactlyOneProbePerPair ==
    pc = "done" =>
        /\ DOMAIN issued = AllTasks
        /\ \A t \in AllTasks : issued[t] = 1 /\ produced[t] = 1
        /\ Len(results) <= Len(targets) * Len(ports)

\* C3 witness: a completed scan of two hosts and several ports that retained
\* some results and discarded others.
ExactlyOneProbePerPairWitness ==
    /\ pc = "done"
    /\ Len(targets) = 2
    /\ Len(ports) >= 2
    /\ results # <<>>
    /\ Len(results) < Len(targets) * Len(ports)

\* the number of retained results for host h and port index k
RetainedCount(h, k) ==
    Cardinality({i \in 1..Len(results) :
                    results[i].host = h /\ results[i].port = ports[k]})

\* the number of successful connection attempts to host h and port index k
OpenedCount(h, k) ==
    Cardinality({t \in opened : targets[t[1]] = h /\ t[2] = k})

EveryOpenRetainedOnce ==
    /\ Len(results) = Cardinality(opened)
    /\ \A h \in Hosts : \A k \in 1..Len(ports) : RetainedCount(h, k) = OpenedCount(h, k)

\* C4: a scan in which every probe returns eventually finishes, and then
\* every (host, port) whose connection succeeded is in the retained sequence
\* exactly once per successful attempt, whatever the completion order.  (A
\* run that never starts scanning, that is interrupted, or in which a probe
\* raised or the pool could not be created, is not covered.)
OpenPortsEventuallyRetained ==
    <>(\/ pc = "invalid"
       \/ pc = "interrupted"
       \/ pc = "error" /\ (raised # {} \/ threads <= 0)
       \/ pc = "done" /\ EveryOpenRetainedOnce)

\* C4 witness: a finished scan of two hosts in which the second port's
\* result was retained before the first port's.
OpenPortsEventuallyRetainedWitness ==
    /\ pc = "done"
    /\ Len(targets) = 2
    /\ \E i, j \in 1..Len(results) :
          /\ i < j
          /\ results[i].host = results[j].host
          /\ results[i].scan_time > results[j].scan_time

\* C5: every retained result is an open one.
RetainedAreOpen == \A i \in 1..Len(results) : results[i].is_open

\* C5 witness: the scan is over, a closed result was produced and the
\* retained sequence holds only the open ones.
RetainedAreOpenWitness ==
    /\ pc = "done"
    /\ results # <<>>
    /\ \E t \in AllTasks : produced[t] = 1 /\ t \notin opened

\* C6: a ScanResult returned by scan_port with is_open false has an empty
\* service and an empty banner.
ClosedResultIsBare ==
    \A r \in ReturnedResults : ~r.is_open => r.service = "" /\ r.banner = <<>>

\* C6 witness: scan_port has returned a closed result for a port of the
\* Service Table.
ClosedResultIsBareWitness ==
    \E r \in ReturnedResults : ~r.is_open /\ r.port \in DOMAIN COMMON_PORTS

\* C7: in every ScanResult returned by scan_port, service is the Service
\* Table entry of the port when the port is open and listed, and empty
\* otherwise.
ServiceMatchesTable ==
    \A r \in ReturnedResults :
        r.service = IF r.is_open /\ r.port \in DOMAIN COMMON_PORTS
                    THEN COMMON_PORTS[r.port]
                    ELSE ""

\* C7 witness: scan_port has returned an open result for a listed port and
\* an open result for an unlisted one.
ServiceMatchesTableWitness ==
    \E r1, r2 \in ReturnedResults :
        /\ r1.is_open /\ r1.service = "HTTP"
        /\ r2.is_open /\ r2.port \notin DOMAIN COMMON_PORTS

\* C8: no scan_port call raises: no exception of a probe reaches a future,
\* scan_host or main.
NoProbeRaises ==
    /\ raised = {}
    /\ \A p \in DOMAIN fut : fut[p].exception = ""
    /\ exc \in {"", "ValueError"}

NothingScanned ==
    /\ DOMAIN issued = {}
    /\ InFlight = {}
    /\ open_socks = {}
    /\ opened = {}
    /\ results = <<>>

\* C9: when a target is invalid, or the port specification does not parse
\* or yields no ports, main ends with an error and no probe is ever issued
\* and nothing is ever appended to the results.
InvalidInputNeverScans ==
    (/\ pc # "main"
     /\ \/ invalid_targets # <<>>
        \/ ~parse_ports(port_input).ok
        \/ parse_ports(port_input).ports = <<>>)
    => pc = "invalid" /\ NothingScanned

\* C9 witness: main has ended on an invalid target although the port
\* specification yields ports.
InvalidInputNeverScansWitness ==
    /\ pc = "invalid"
    /\ invalid_targets # <<>>
    /\ parse_ports(port_input).ok
    /\ parse_ports(port_input).ports # <<>>

\* the tokens of a port specification
Tokens(input) == Split(input, ",")

\* a token of the form int-int
IsRangeToken(tok) ==
    LET pieces == Split(Strip(tok), "-")
    IN  Len(pieces) = 2 /\ IntOk(pieces[1]) /\ IntOk(pieces[2])

\* a range whose start is greater than its end
ReversedRange(tok) ==
    /\ IsRangeToken(tok)
    /\ LET pieces == Split(Strip(tok), "-")
       IN  IntVal(pieces[1]) > IntVal(pieces[2])

\* a token that is neither empty, nor an integer, nor a range
NonNumeric(tok) == Strip(tok) # <<>> /\ ~IntOk(tok) /\ ~IsRangeToken(tok)

HasMalformedToken(input) ==
    \E i \in 1..Len(Tokens(input)) :
        NonNumeric(Tokens(input)[i]) \/ ReversedRange(Tokens(input)[i])

\* C10: parse_ports signals a parse failure for every port specification
\* that contains a malformed token (non-numeric, or a reversed range), also
\* when other tokens are well-formed.
MalformedTokenFailsParse ==
    (pc = "parsed" /\ HasMalformedToken(port_input)) => ~parsed.ok

\* a token of a well-formed specification: an integer, or a range whose start
\* is not above its end
WellFormedToken(tok) == IntOk(tok) \/ (IsRangeToken(tok) /\ ~ReversedRange(tok))

WellFormed(input) ==
    \A i \in 1..Len(Tokens(input)) : WellFormedToken(Tokens(input)[i])

\* the ports a well-formed token denotes
TokenPorts(tok) ==
    IF IntOk(tok) THEN {IntVal(tok)}
    ELSE LET pieces == Split(Strip(tok), "-")
         IN  {n \in 0..IntVal(pieces[2]) : IntVal(pieces[1]) <= n}

ExpectedPorts(input) ==
    UNION {TokenPorts(Tokens(input)[i]) : i \in 1..Len(Tokens(input))}

StrictlyAscending(seq) == \A i \in 1..(Len(seq) - 1) : seq[i] < seq[i + 1]

Elements(seq) == {seq[i] : i \in 1..Len(seq)}

\* the two examples of the specification, as texts
Example1 == <<"2", "0", "-", "2", "2", ",", "8", "0">>

Example2 == <<"8", "0", ",", "2", "2", ",", "8", "0">>

\* C11: for every well-formed port specification parse_ports returns the
\* union of the ports of all tokens as a strictly ascending sequence without
\* duplicates; "20-22,80" gives 20 21 22 80 and "80,22,80" gives 22 80.
WellFormedParsesToSortedUnion ==
    (pc = "parsed" /\ WellFormed(port_input)) =>
        /\ parsed.ok
        /\ StrictlyAscending(parsed.ports)
        /\ Elements(parsed.ports) = ExpectedPorts(port_input)
        /\ parse_ports(Example1) = [ok |-> TRUE, ports |-> <<20, 21, 22, 80>>]
        /\ parse_ports(Example2) = [ok |-> TRUE, ports |-> <<22, 80>>]

WellFormedParsesToSortedUnionWitness ==
    /\ pc = "parsed"
    /\ port_input = <<"2", ",", "1", "-", "2">>
    /\ WellFormed(port_input)
    /\ parsed.ports = <<1, 2>>

\* an entry of the retained sequence that is whole: an open result of a
\* probe of this run, stamped
CompleteOpenResult(r) ==
    /\ r.is_open
    /\ r.host \in Elements(targets)
    /\ r.port \in Elements(ports)
    /\ r.scan_time >= 0

\* C12: a user interrupt during scan_hosts is caught by main (the run ends
\* in the interrupt handler, never in a crash or in the generic error
\* handler), and from the interrupt on the retained sequence is exactly what
\* it was: no entry is added, removed, reordered or changed; every entry it
\* holds is a complete open-port result.
InterruptKeepsResults ==
    /\ [](pc # "crashed")
    /\ [](exc = "KeyboardInterrupt" => pc \in {"shutdown", "interrupted"})
    /\ [](\A i \in 1..Len(results) : CompleteOpenResult(results[i]))
    /\ [][exc' = "KeyboardInterrupt" => results' = results]_vars

InterruptKeepsResultsWitness ==
    /\ pc = "interrupted"
    /\ results # <<>>
    /\ \E t \in AllTasks : issued[t] = 0
    /\ \E t \in AllTasks : produced[t] = 1 /\ t \notin opened

\* C13: after the interrupt no probe that had not already started is begun,
\* no later host is scanned and no further result is appended.
InterruptHaltsDispatch ==
    [][exc = "KeyboardInterrupt" =>
          /\ issued' = issued
          /\ hostIdx' = hostIdx
          /\ results' = results]_vars

\* C14: the banner probe sends its payload on every probe whose connection
\* succeeded, whether or not the port is in the Service Table, and on no
\* probe whose connection failed.
PayloadSentOnEveryOpenProbe ==
    /\ \A t \in AllTasks :
          (t[1] = hostIdx /\ t \in opened /\ produced[t] > 0)
              => t \in DOMAIN banner_io
    /\ \A t \in DOMAIN banner_io : t \in opened

\* C15: a failure during banner capture after a successful connect is
\* absorbed: scan_port returns its result, with banner empty and with is_open
\* and service (and every other field) as they were before the attempt.
BannerFailureAbsorbed ==
    \A t \in DOMAIN banner_io :
        banner_io[t].failed =>
            /\ t \notin raised
            /\ produced[t] = 1
            /\ fut[t[2]].state = "finished"
            /\ fut[t[2]].exception = ""
            /\ fut[t[2]].result = banner_io[t].before
            /\ fut[t[2]].result.banner = <<>>
            /\ fut[t[2]].result.is_open

BannerFailureAbsorbedWitness ==
    \E t \in DOMAIN banner_io :
        /\ banner_io[t].failed
        /\ fut[t[2]].result.service = "HTTP"
        /\ pc = "done"
        /\ \E i \in 1..Len(results) : results[i] = fut[t[2]].result

\* C16: the socket of a probe is closed on every way out of scan_port: a
\* socket is open only while its scan_port call is executing, never once the
\* call has returned or raised, and none is open when no host is being
\* scanned.
SocketsClosedOnReturn ==
    /\ open_socks \subseteq DOMAIN frame
    /\ \A t \in AllTasks : (produced[t] > 0 \/ t \in raised) => t \notin open_socks
    /\ ~InScanHost => open_socks = {}

SocketsClosedOnReturnWitness ==
    /\ pc = "error"
    /\ raised # {}
    /\ open_socks = {}
    /\ \E t \in DOMAIN banner_io : banner_io[t].failed
    /\ \E t \in AllTasks : produced[t] = 1 /\ t \notin opened

\* C17: the retained sequence has a single writer and only grows at its
\* end: whenever it changes, the change is one entry appended by the loop of
\* scan_host in the main thread, the entries already there stay in place
\* unchanged, and the step is not a step of a worker (no probe starts, moves
\* or ends in it).
SingleWriterAppendOnly ==
    [][results' # results =>
          /\ pc = "collect"
          /\ Len(results') = Len(results) + 1
          /\ SubSeq(results', 1, Len(results)) = results
          /\ UNCHANGED <<queue, frame, open_socks, fut, issued, produced,
                         raised, opened>>]_vars

SingleWriterAppendOnlyWitness ==
    /\ pc = "collect"
    /\ Len(results) >= 2
    /\ DOMAIN frame # {}

\* C18: with an empty retained sequence to_csv writes nothing and creates no
\* file while to_json writes a file holding an empty array; with a non-empty
\* sequence both write one record per retained result, in retained order,
\* with the fields host, port, service, banner and scan_time.
ExportsMatchRetained ==
    /\ pc \in {"to_csv", "exported"} =>
          /\ files.json.exists
          /\ Len(files.json.array) = Len(results)
          /\ \A i \in 1..Len(results) :
                LET o == files.json.array[i]
                IN  /\ DOMAIN o = Elements(fieldnames)
                    /\ o.host = results[i].host
                    /\ o.port = results[i].port
                    /\ o.service = results[i].service
                    /\ o.banner = results[i].banner
                    /\ o.scan_time = results[i].scan_time
    /\ (pc = "exported" /\ results = <<>>) => ~files.csv.exists
    /\ (pc = "exported" /\ results # <<>>) =>
          /\ files.csv.exists
          /\ files.csv.header = <<"host", "port", "service", "banner", "scan_time">>
          /\ Len(files.csv.rows) = Len(results)
          /\ \A i \in 1..Len(results) :
                LET row == files.csv.rows[i]
                IN  /\ Len(row) = 5
                    /\ row[1] = results[i].host
                    /\ IntOk(row[2]) /\ IntVal(row[2]) = results[i].port
                    /\ row[3] = results[i].service
                    /\ row[4] = results[i].banner
                    /\ IntOk(row[5]) /\ IntVal(row[5]) = results[i].scan_time
    /\ pc # "exported" => ~files.csv.exists

ExportsMatchRetainedWitness ==
    /\ pc = "exported"
    /\ Len(results) = 2
    /\ results[1].banner # <<>>
    /\ results[2].service = ""
    /\ files.csv.exists

\* the place in the completion order of the probe stamped stamp
CompletionRank(stamp) ==
    CHOOSE k \in 1..Len(completion) : completion[k] = stamp

\* C19: open results reach the retained sequence in completion order: of
\* any two retained entries, the one retained first is the one whose probe
\* ended first, also when the probes ended while later ports were still
\* being submitted.
RetainedInCompletionOrder ==
    \A i, j \in 1..Len(results) :
        i < j => CompletionRank(results[i].scan_time)
                   < CompletionRank(results[j].scan_time)

\* C20: when data was received, the stored banner is the first line of the
\* received text (up to the first newline) with the whitespace around that
\* line removed: it never starts or ends with a whitespace character and is
\* never taken from a later line.
BannerIsTrimmedFirstLine ==
    \A t \in DOMAIN banner_io :
        (~banner_io[t].failed /\ Decode(banner_io[t].data) # <<>>) =>
            LET banner     == fut[t[2]].result.banner
                first_line == Split(Decode(banner_io[t].data), "\n")[1]
            IN  /\ banner = Strip(first_line)
                /\ banner # <<>> =>
                      /\ banner[1] \notin Whitespace
                      /\ banner[Len(banner)] \notin Whitespace

=============================================================================
